---- MODULE Spec2Model ----
(***************************************************************************)
(* A model of McpClient (src/src/mcpClient.ts, the class at lines 283-653):*)
(* one session object, its transport (child process, WebSocket or HTTP),   *)
(* its request counter and pending-request table, the start() handshake    *)
(* coroutines, the callTool callers and the server's side of the wire.     *)
(***************************************************************************)
EXTENDS Integers, Sequences, FiniteSets, TLC

\* Number of start() calls, of callTool() calls, and of both together that the
\* host makes on the session object (stop() may be called any number of times).
MaxStarts == 2
MaxCalls == 2
MaxHostCalls == 3

\* Lines of text that is not JSON the server writes, and the characters a pipe
\* holds (a handshake's two responses and a call's, of four characters each).
MaxBad == 1
MaxPipe == 12

\* Pieces (runs of text, tokens) in a string given to resolvePlaceholders.
MaxPieces == 3

\* Messages the server sends of its own accord (notifications, requests).
MaxServerMessages == 1

\* refreshMcpServers runs (the initial load, file-watcher events, the command).
MaxRuns == 2

\* Workspace folders.
MaxFolders == 2

\* Items in the content list of a tool result.
MaxContent == 2

Starts == 1..MaxStarts
Calls == 1..MaxCalls

\* `null` for the process and ws references (mcpClient.ts:284-285). A child
\* process or socket is named by the start() call that created it.
NoConn == 0

\* message.id of a message that carries no id (undefined).
NoId == -1

\* Every request takes one id: at most two per handshake, one per callTool.
IdBound == 2 * MaxStarts + MaxCalls
Ids == 1..IdBound

\* McpServerConfigExtended: the transport kind (config.type || 'stdio') and
\* whether the field that kind requires (command / url) is present.
Configs ==
  { [type |-> "stdio", command |-> TRUE, url |-> FALSE],
    [type |-> "stdio", command |-> FALSE, url |-> FALSE],
    [type |-> "websocket", command |-> FALSE, url |-> TRUE],
    [type |-> "websocket", command |-> FALSE, url |-> FALSE],
    [type |-> "http", command |-> FALSE, url |-> TRUE],
    [type |-> "http", command |-> FALSE, url |-> FALSE],
    [type |-> "sse", command |-> FALSE, url |-> TRUE] }

\* The tool lists a tools/list result can carry.
ToolLists == {"[echo]", "[echo,sum]"}

\* What `result.tools` evaluates to for a tools/list result (line 466): a tool
\* list, the empty list, or undefined where the result has no such field.
ListResults == ToolLists \cup {"[]", "undefined"}

\* The names a caller may give to callTool: two the mock server knows, one that
\* no tool list carries.
ToolNames == {"echo", "sum", "nope"}

\* ToolContent (types.ts lines 113-136): a text, an image, a resource with
\* text, a resource without.
ContentKinds == {"text", "image", "resource", "blob"}

\* What `result` of a tools/call holds: a content list of up to MaxContent
\* items, or no `content` field at all.
Results ==
  {[defined |-> FALSE, items |-> << >>]}
    \cup {[defined |-> TRUE, items |-> q] :
            q \in UNION {[1..n -> ContentKinds] : n \in 0..MaxContent}}

\* Text that is not JSON: a truncated frame, a stray word.
BadFrames == { << "}" >>, << "x", " " >> }

\* What a response carries: a result (well-formed for the method it answers) or
\* a JSON-RPC error object.
Kinds == {"good", "error"}

VARIABLES
  config,           \* this.config (immutable)
  hasGlobalWS,      \* whether the runtime defines the global `WebSocket`
  process,          \* this.process: NoConn or the start() that spawned it
  ws,               \* this.ws: NoConn or the start() that created it
  httpUrl,          \* this.httpUrl is set
  requestId,        \* this.requestId
  pendingRequests,  \* this.pendingRequests: id -> continuation
  serverInfo,       \* this.serverInfo
  tools,            \* this._tools
  conn,             \* per start(): the state of the process / socket it made
  wire,             \* requests written to a stream transport, not yet answered
  posts,            \* HTTP POSTs in flight
  startState,       \* per start(): the state of the promise it returned
  startErr,         \* per start(): why the promise was rejected
  hs,               \* per start(): position of its handshake coroutine
  sentSeq,          \* per start(): the handshake messages it transmitted
  initOk,           \* per start(): a successful initialize response was received
  calls,            \* per callTool(): its promise, id and outcome
  buffer,           \* this.buffer: characters received, not yet a complete line
  pipe,             \* per start(): characters the child wrote, not yet read
  received,         \* every character handed to handleData so far
  dispatched,       \* every line handleData handed to JSON.parse so far
  hosted,           \* the session was created by the extension (loadMcpConfig)
  registry,         \* mcpClients and the 'exit' listener of loadMcpConfig
  via,              \* per call: who made it (callTool, mcp-call, a tool provider)
  toolName,         \* per call: the tool name it was given
  raw,              \* the strings of this.config: command, args, env values, url
  ctx,              \* process.env, the workspace folder, process.cwd(), the platform
  opened,           \* what spawn / new WsClient / this.httpUrl were last given
  value,            \* a string handed to resolvePlaceholders, as its pieces
  result,           \* what resolvePlaceholders returned for it
  workspace,        \* per workspace folder: the server its config file names
  clients,          \* every McpClient loadMcpConfig has created, in order
  mcpClients,       \* the extension's mcpClients map: server name -> client
  runs              \* per refreshMcpServers run: where it stands

vars == << config, hasGlobalWS, process, ws, httpUrl, requestId, pendingRequests,
           serverInfo, tools, conn, wire, posts, startState, startErr, hs,
           sentSeq, initOk, calls, buffer, pipe, received, dispatched,
           hosted, registry, via, toolName, raw, ctx, opened, value, result,
           workspace, clients, mcpClients, runs >>

\* The state as one record, so that the methods are functions on it.
World ==
  [ process |-> process, ws |-> ws, httpUrl |-> httpUrl, requestId |-> requestId,
    pendingRequests |-> pendingRequests, serverInfo |-> serverInfo, tools |-> tools,
    conn |-> conn, wire |-> wire, posts |-> posts, startState |-> startState,
    startErr |-> startErr, hs |-> hs, sentSeq |-> sentSeq, initOk |-> initOk,
    calls |-> calls, buffer |-> buffer, pipe |-> pipe, received |-> received,
    dispatched |-> dispatched, registry |-> registry, via |-> via,
    toolName |-> toolName, opened |-> opened ]

\* Faulty variant of registryAfter: no 'exit' listener, the entry stays.
registryAfterKeepsEntry(b, a) ==
  IF ~hosted
    THEN a.registry
    ELSE IF \E s \in Starts : b.startState[s] # "resolved" /\ a.startState[s] = "resolved"
           THEN "held"
           ELSE a.registry

\* loadMcpConfig around the session (extension.ts: lines 258-266 of
\* unnamed/part_002): the continuation of `await client.start()` enters the
\* client in mcpClients and attaches the 'exit' listener, which deletes the
\* entry. registry is "never" (not entered, no listener), "held", or "removed"
\* (not in mcpClients, listener attached). b is the state before the step, a the
\* state after it.
registryAfter(b, a) ==
  IF ~hosted
    THEN a.registry
    ELSE IF \E s \in Starts : b.startState[s] # "resolved" /\ a.startState[s] = "resolved"
           THEN "held"
           ELSE IF /\ a.registry # "never"
                   /\ \E s \in Starts : /\ b.conn[s] # a.conn[s]
                                        /\ a.conn[s] \in {"exited", "gone", "closed"}
                  THEN "removed"
                  ELSE a.registry

Commit(w) ==
  /\ process' = w.process
  /\ ws' = w.ws
  /\ httpUrl' = w.httpUrl
  /\ requestId' = w.requestId
  /\ pendingRequests' = w.pendingRequests
  /\ serverInfo' = w.serverInfo
  /\ tools' = w.tools
  /\ conn' = w.conn
  /\ wire' = w.wire
  /\ posts' = w.posts
  /\ startState' = w.startState
  /\ startErr' = w.startErr
  /\ hs' = w.hs
  /\ sentSeq' = w.sentSeq
  /\ initOk' = w.initOk
  /\ calls' = w.calls
  /\ buffer' = w.buffer
  /\ pipe' = w.pipe
  /\ received' = w.received
  /\ dispatched' = w.dispatched
  /\ registry' = registryAfter(World, w)
  /\ via' = w.via
  /\ toolName' = w.toolName
  /\ opened' = w.opened
  /\ UNCHANGED << config, hasGlobalWS, hosted, raw, ctx, value, result,
                  workspace, clients, mcpClients, runs >>

IdleCall == [st |-> "idle", id |-> 0, rid |-> 0, val |-> "none"]

\* No transport has been opened yet.
NotOpened ==
  [made |-> FALSE, command |-> << >>, args |-> << >>, env |-> << >>, url |-> << >>]

\* resolvePlaceholders has not been called.
NotResolved == [done |-> FALSE, text |-> << >>]

\* The state after `new McpClient(name, config, outputChannel)`.
InitSession ==
  /\ config \in Configs
  /\ hasGlobalWS \in (IF config.type = "websocket" THEN BOOLEAN ELSE {FALSE})
  /\ process = NoConn
  /\ ws = NoConn
  /\ httpUrl = FALSE
  /\ requestId = 0
  /\ pendingRequests = << >>
  /\ serverInfo = "null"
  /\ tools = "[]"
  /\ conn = [s \in Starts |-> "none"]
  /\ wire = {}
  /\ posts = {}
  /\ startState = [s \in Starts |-> "idle"]
  /\ startErr = [s \in Starts |-> "none"]
  /\ hs = [s \in Starts |-> "none"]
  /\ sentSeq = [s \in Starts |-> << >>]
  /\ initOk = [s \in Starts |-> FALSE]
  /\ calls = [c \in Calls |-> IdleCall]
  /\ buffer = << >>
  /\ pipe = [s \in Starts |-> << >>]
  /\ received = << >>
  /\ dispatched = << >>
  /\ registry = "never"
  /\ via = [c \in Calls |-> "none"]
  /\ toolName = [c \in Calls |-> "none"]
  /\ opened = NotOpened

\* A configuration whose strings hold no placeholder, in an environment with a
\* home directory.
PlainStrings ==
  /\ raw = [command |-> << "a" >>, args |-> << << "a" >> >>,
            env |-> << << "a" >> >>, url |-> << "a" >>]
  /\ ctx = [HOME |-> << "/", "home" >>, USERPROFILE |-> << >>, FOO |-> << >>,
            folder |-> << "/", "ws", "/", "proj" >>, cwd |-> << "/", "cwd" >>,
            win32 |-> FALSE]
  /\ value = << >>
  /\ result = NotResolved

\* The workspace folders and the server names their config files can hold.
Folders == 1..MaxFolders
Names == {"a", "b"}
Runs == 1..MaxRuns

\* A run creates at most one client per folder.
ClientIds == 1..(MaxRuns * MaxFolders)

\* No client in mcpClients.get(name).
NoClient == 0

\* A refreshMcpServers run that has not begun.
IdleRun == [pc |-> "idle", folder |-> 0, overlapped |-> FALSE, before |-> {}]

\* The extension before any refresh: `const mcpClients = new Map()` (line 8).
EmptyRegistry ==
  /\ clients = << >>
  /\ mcpClients = [n \in Names |-> NoClient]
  /\ runs = [r \in Runs |-> IdleRun]

\* One session looked at by itself: no workspace, no refresh.
OneSession ==
  /\ workspace = [f \in Folders |-> "none"]
  /\ EmptyRegistry

\* A session used on its own.
Init ==
  /\ InitSession
  /\ PlainStrings
  /\ OneSession
  /\ hosted = FALSE

\* get isConnected: this.process !== null && !this.process.killed
isConnected(w) == w.process # NoConn /\ w.conn[w.process] # "killed"

\* JsonRpcResponse: the id, a result (tl: its tool list, for tools/list) or an
\* error object. What JSON.parse returns for a message the server sends of its
\* own accord is typed as one too: a "request" has an id and a method, a
\* "notification" a method only (id NoId); neither has a result or an error.
Message(id, kind, tl) == [id |-> id, kind |-> kind, tl |-> tl]

\* Map.set / Map.delete on the pending table.
MapSet(m, k, v) == [x \in DOMAIN m \cup {k} |-> IF x = k THEN v ELSE m[x]]
MapDelete(m, k) == [x \in DOMAIN m \ {k} |-> m[x]]

\* A continuation: what resumes when a request is settled. kind is "init"
\* (initialize() awaiting its response), "list" (discoverTools()), "notify"
\* (the HTTP POST of the notification) or "call" (a callTool caller).
Cont(kind, who) == [kind |-> kind, who |-> who]

\* The handshake of start() s throws `reason`. On stdio and http the exception
\* leaves start() (lines 371-374, 424-425); on websocket it is caught and logged
\* inside the 'open' handler (lines 386-391).
FailHandshake(w, s, reason) ==
  LET w1 == [w EXCEPT !.hs[s] = "failed", !.startErr[s] = reason]
  IN IF config.type = "websocket"
       THEN w1
       ELSE [w1 EXCEPT !.startState[s] = "rejected"]

\* reject(new Error(reason)) on continuation k.
Reject(w, k, reason, rid) ==
  IF k.kind = "call"
    THEN [w EXCEPT !.calls[k.who] =
            [st |-> "rejected", id |-> @.id, rid |-> rid, val |-> reason]]
    ELSE FailHandshake(w, k.who, reason)

\* Faulty variant of StreamSend: the entry of a request that could not be
\* written stays in the pending table.
StreamSendKeepsEntry(w, k, method) ==
  LET id == w.requestId + 1
      w1 == [w EXCEPT !.requestId = id,
                      !.pendingRequests = MapSet(@, id, k)]
      w2 == IF k.kind = "call" THEN [w1 EXCEPT !.calls[k.who].id = id] ELSE w1
      open == IF config.type = "stdio"
                THEN w.process # NoConn
                ELSE w.ws # NoConn /\ w.conn[w.ws] = "open"
      to == IF config.type = "stdio" THEN w.process ELSE w.ws
  IN IF ~open
       THEN Reject(w2, k, "not connected", 0)
       ELSE LET w3 == [w2 EXCEPT !.wire = @ \cup
                          {[id |-> id, method |-> method, conn |-> to]}]
            IN IF k.kind = "call"
                 THEN w3
                 ELSE [w3 EXCEPT !.sentSeq[k.who] = Append(@, method)]

\* Faulty variant of StreamSend: a socket that exists is written to whatever its
\* readyState.
StreamSendAnyState(w, k, method) ==
  LET id == w.requestId + 1
      w1 == [w EXCEPT !.requestId = id,
                      !.pendingRequests = MapSet(@, id, k)]
      w2 == IF k.kind = "call" THEN [w1 EXCEPT !.calls[k.who].id = id] ELSE w1
      open == IF config.type = "stdio" THEN w.process # NoConn ELSE w.ws # NoConn
      to == IF config.type = "stdio" THEN w.process ELSE w.ws
  IN IF ~open
       THEN Reject([w2 EXCEPT !.pendingRequests = MapDelete(@, id)], k,
                   "not connected", 0)
       ELSE LET w3 == [w2 EXCEPT !.wire = @ \cup
                          {[id |-> id, method |-> method, conn |-> to]}]
            IN IF k.kind = "call"
                 THEN w3
                 ELSE [w3 EXCEPT !.sentSeq[k.who] = Append(@, method)]

\* Faulty variant of StreamSend: a request that could not be written gives its
\* id back to the counter and stays in the pending table.
StreamSendRollsBack(w, k, method) ==
  LET id == w.requestId + 1
      w1 == [w EXCEPT !.requestId = id,
                      !.pendingRequests = MapSet(@, id, k)]
      w2 == IF k.kind = "call" THEN [w1 EXCEPT !.calls[k.who].id = id] ELSE w1
      open == IF config.type = "stdio"
                THEN w.process # NoConn
                ELSE w.ws # NoConn /\ w.conn[w.ws] = "open"
      to == IF config.type = "stdio" THEN w.process ELSE w.ws
  IN IF ~open
       THEN Reject([w2 EXCEPT !.requestId = w.requestId], k, "not connected", 0)
       ELSE LET w3 == [w2 EXCEPT !.wire = @ \cup
                          {[id |-> id, method |-> method, conn |-> to]}]
            IN IF k.kind = "call"
                 THEN w3
                 ELSE [w3 EXCEPT !.sentSeq[k.who] = Append(@, method)]

\* The stream branch of sendRequest (lines 504-541): allocate the id, enter the
\* pending table, then write to the process' stdin or the socket, or take the
\* entry out again and reject.
StreamSend(w, k, method) ==
  LET id == w.requestId + 1
      w1 == [w EXCEPT !.requestId = id,
                      !.pendingRequests = MapSet(@, id, k)]
      w2 == IF k.kind = "call" THEN [w1 EXCEPT !.calls[k.who].id = id] ELSE w1
      open == IF config.type = "stdio"
                THEN w.process # NoConn
                ELSE w.ws # NoConn /\ w.conn[w.ws] = "open"
      to == IF config.type = "stdio" THEN w.process ELSE w.ws
  IN IF ~open
       THEN Reject([w2 EXCEPT !.pendingRequests = MapDelete(@, id)], k,
                   "not connected", 0)
       ELSE LET w3 == [w2 EXCEPT !.wire = @ \cup
                          {[id |-> id, method |-> method, conn |-> to]}]
            IN IF k.kind = "call"
                 THEN w3
                 ELSE [w3 EXCEPT !.sentSeq[k.who] = Append(@, method)]

\* Faulty variant of HttpSend: the request is also entered in the pending table.
HttpSendViaTable(w, k, method) ==
  IF ~w.httpUrl
    THEN Reject(w, k, "not configured", 0)
    ELSE LET id == w.requestId + 1
             w1 == [w EXCEPT !.requestId = id,
                             !.pendingRequests = MapSet(@, id, k),
                             !.posts = @ \cup {[k |-> k, id |-> id, method |-> method,
                                                  url |-> w.opened.url]}]
         IN IF k.kind = "call"
              THEN [w1 EXCEPT !.calls[k.who].id = id]
              ELSE [w1 EXCEPT !.sentSeq[k.who] = Append(@, method)]

\* The http branch of sendRequest (lines 481-501).
HttpSend(w, k, method) ==
  IF ~w.httpUrl
    THEN Reject(w, k, "not configured", 0)
    ELSE LET id == w.requestId + 1
             w1 == [w EXCEPT !.requestId = id,
                             !.posts = @ \cup {[k |-> k, id |-> id, method |-> method,
                                                  url |-> w.opened.url]}]
         IN IF k.kind = "call"
              THEN [w1 EXCEPT !.calls[k.who].id = id]
              ELSE [w1 EXCEPT !.sentSeq[k.who] = Append(@, method)]

\* sendRequest (lines 478-542)
sendRequest(w, k, method) ==
  IF config.type = "http" THEN HttpSend(w, k, method) ELSE StreamSend(w, k, method)

\* discoverTools up to its await (line 465); hs is the coroutine's position.
discoverTools(w, s) ==
  sendRequest([w EXCEPT !.hs[s] = "discover"], Cont("list", s), "tools/list")

\* sendNotification('notifications/initialized') followed by what initialize()
\* and start() do next (lines 461, 374/388/425, 544-580). On http the POST is
\* awaited; its outcome is ignored. On stdio the notification is written if the
\* process reference is set. On websocket `WebSocket.OPEN` names the runtime's
\* global, which is read only when this.ws is set: a ReferenceError where the
\* runtime has no such global.
NotifyThenDiscover(w, s) ==
  LET note == "notifications/initialized"
      logged == [w EXCEPT !.sentSeq[s] = Append(@, note)]
  IN CASE config.type = "http" ->
            IF ~w.httpUrl
              THEN discoverTools(w, s)
              ELSE [logged EXCEPT !.hs[s] = "notify",
                       !.posts = @ \cup
                          {[k |-> Cont("notify", s), id |-> 0, method |-> note,
                            url |-> w.opened.url]}]
       [] config.type = "stdio" ->
            IF w.process = NoConn
              THEN discoverTools(w, s)
              ELSE discoverTools(logged, s)
       [] OTHER ->
            IF w.ws = NoConn
              THEN discoverTools(w, s)
              ELSE IF ~hasGlobalWS
                     THEN FailHandshake(w, s, "WebSocket is not defined")
                     ELSE IF w.conn[w.ws] = "open"
                            THEN discoverTools(logged, s)
                            ELSE discoverTools(w, s)

\* resolve(result) on continuation k: the awaiting coroutine goes on.
\* m is the response: [id, kind, tl] with tl the tool list of a tools/list result.
Resolve(w, k, m) ==
  CASE k.kind = "call" ->
         [w EXCEPT !.calls[k.who] =
            [st |-> "resolved", id |-> @.id, rid |-> m.id, val |-> m.kind]]
    [] m.kind = "request" ->
         \* message.result is undefined: line 458 reads
         \* this.serverInfo.serverInfo, line 466 reads result.tools.
         FailHandshake(IF k.kind = "init" THEN [w EXCEPT !.serverInfo = "undefined"]
                                          ELSE w,
                       k.who, "TypeError")
    [] k.kind = "init" ->
         \* lines 457-461: assign the result, log, notify.
         NotifyThenDiscover([w EXCEPT !.serverInfo = "srv", !.initOk[k.who] = TRUE],
                            k.who)
    [] k.kind = "list" ->
         \* lines 466-467: assign result.tools, then log its length (a
         \* TypeError on undefined); start() returns (stdio, http).
         LET w1 == [w EXCEPT !.tools = m.tl]
             w2 == [w1 EXCEPT !.hs[k.who] = "done"]
         IN IF m.tl = "undefined"
              THEN FailHandshake(w1, k.who, "TypeError")
              ELSE IF config.type = "websocket"
                     THEN w2
                     ELSE [w2 EXCEPT !.startState[k.who] = "resolved"]
    [] OTHER -> w

\* Faulty variant of handleMessage: the response settles the oldest pending
\* request (arrival order) instead of the one its id names.
handleMessageByArrival(w, m) ==
  IF DOMAIN w.pendingRequests # {}
    THEN LET first == CHOOSE i \in DOMAIN w.pendingRequests :
                        \A j \in DOMAIN w.pendingRequests : i <= j
             pending == w.pendingRequests[first]
             w1 == [w EXCEPT !.pendingRequests = MapDelete(@, first)]
         IN IF m.kind = "error"
              THEN Reject(w1, pending, "server error", m.id)
              ELSE Resolve(w1, pending, m)
    ELSE w

\* Faulty variant of handleMessage: the entry stays in the pending table after
\* the request is settled.
handleMessageKeepsEntry(w, m) ==
  IF m.id \in DOMAIN w.pendingRequests
    THEN LET pending == w.pendingRequests[m.id]
         IN IF m.kind = "error"
              THEN Reject(w, pending, "server error", m.id)
              ELSE Resolve(w, pending, m)
    ELSE w

\* Faulty variant of handleMessage: an error response fails the session, the
\* tool list and the server identity are dropped with the request.
handleMessageErrorResets(w, m) ==
  IF m.id \in DOMAIN w.pendingRequests
    THEN LET pending == w.pendingRequests[m.id]
             w1 == [w EXCEPT !.pendingRequests = MapDelete(@, m.id)]
         IN IF m.kind = "error"
              THEN Reject([w1 EXCEPT !.tools = "[]", !.serverInfo = "null"],
                          pending, "server error", m.id)
              ELSE Resolve(w1, pending, m)
    ELSE w

\* Faulty variant of handleMessage: a message without an id settles the oldest
\* pending request.
handleMessageNoIdSettles(w, m) ==
  IF m.id = NoId /\ DOMAIN w.pendingRequests # {}
    THEN LET first == CHOOSE i \in DOMAIN w.pendingRequests :
                        \A j \in DOMAIN w.pendingRequests : i <= j
         IN Resolve([w EXCEPT !.pendingRequests = MapDelete(@, first)],
                    w.pendingRequests[first], Message(first, "good", "[]"))
    ELSE IF m.id \in DOMAIN w.pendingRequests
      THEN LET pending == w.pendingRequests[m.id]
               w1 == [w EXCEPT !.pendingRequests = MapDelete(@, m.id)]
           IN IF m.kind = "error"
                THEN Reject(w1, pending, "server error", m.id)
                ELSE Resolve(w1, pending, m)
      ELSE w

\* handleMessage (lines 640-652): a message with an id settles the pending
\* request of that id, if there is one, and removes it from the table.
handleMessage(w, m) ==
  IF m.id # NoId /\ m.id \in DOMAIN w.pendingRequests
    THEN LET pending == w.pendingRequests[m.id]
             w1 == [w EXCEPT !.pendingRequests = MapDelete(@, m.id)]
         IN IF m.kind = "error"
              THEN Reject(w1, pending, "server error", m.id)
              ELSE Resolve(w1, pending, m)
    ELSE w

\* A response as the server writes it: a line of characters. The characters of
\* the model are the id, the body (the error object, or the result: its tool list
\* for tools/list) and the closing brace.
Encode(m) ==
  << ToString(m.id),
     CASE m.kind = "error" -> "error"
       [] m.kind \in {"request", "notification"} -> "method"
       [] OTHER -> m.tl,
     "}" >>

\* String.prototype.trim on a line: leading and trailing blanks removed.
RECURSIVE TrimLeft(_)
TrimLeft(line) ==
  IF line # << >> /\ Head(line) = " " THEN TrimLeft(Tail(line)) ELSE line

RECURSIVE TrimRight(_)
TrimRight(line) ==
  IF line # << >> /\ line[Len(line)] = " "
    THEN TrimRight(SubSeq(line, 1, Len(line) - 1))
    ELSE line

trim(line) == TrimRight(TrimLeft(line))

\* JSON.parse(text) returns a response: text is, blanks aside, an id, a body
\* and the closing brace. Anything else makes JSON.parse throw.
Parses(text) ==
  LET t == trim(text)
  IN /\ Len(t) = 3
     /\ \E i \in {NoId} \cup 0..(IdBound + 1) : ToString(i) = t[1]
     /\ t[2] \in ListResults \cup {"error", "method"}
     /\ t[3] = "}"

\* The message JSON.parse(text) returns.
Parse(text) ==
  LET t == trim(text)
      id == CHOOSE i \in {NoId} \cup 0..(IdBound + 1) : ToString(i) = t[1]
  IN Message(id,
             CASE t[2] = "error" -> "error"
               [] t[2] = "method" -> IF id = NoId THEN "notification" ELSE "request"
               [] OTHER -> "good",
             IF t[2] \in {"error", "method"} THEN "[]" ELSE t[2])

\* The try / catch around JSON.parse and handleMessage (lines 628-634, and the
\* socket's 'message' handler, lines 394-403): text that does not parse is
\* logged and dropped.
onText(w, text) ==
  IF Parses(text) THEN handleMessage(w, Parse(text)) ELSE w

\* String.prototype.split('\n'): the segments between the newlines, the last
\* one being what follows the last newline.
RECURSIVE split(_)
split(str) ==
  IF str = << >>
    THEN << << >> >>
    ELSE LET rest == split(Tail(str))
         IN IF Head(str) = "\n"
              THEN << << >> >> \o rest
              ELSE << << Head(str) >> \o Head(rest) >> \o Tail(rest)

\* The for loop of handleData (lines 626-636) over the complete lines.
RECURSIVE handleLines(_, _)
handleLines(w, lines) ==
  IF lines = << >>
    THEN w
    ELSE handleLines(IF trim(Head(lines)) # << >> THEN onText(w, Head(lines)) ELSE w,
                     Tail(lines))

\* Faulty variant of handleData: the incomplete trailing fragment is dropped.
handleDataDropsFragment(w, data) ==
  LET lines == split(w.buffer \o data)
  IN handleLines([w EXCEPT !.buffer = << >>], SubSeq(lines, 1, Len(lines) - 1))

\* Faulty variant of handleData: a line that does not parse fails the requests
\* that are pending.
handleDataFailsPending(w, data) ==
  LET lines == split(w.buffer \o data)
      w1 == handleLines([w EXCEPT !.buffer = lines[Len(lines)]],
                        SubSeq(lines, 1, Len(lines) - 1))
  IN IF \E i \in 1..(Len(lines) - 1) : trim(lines[i]) # << >> /\ ~Parses(lines[i])
       THEN [w1 EXCEPT !.pendingRequests = << >>]
       ELSE w1

\* handleData (lines 620-638): append to the buffer, split on newline, keep what
\* follows the last newline, hand every non-blank complete line to JSON.parse.
handleData(w, data) ==
  LET lines == split(w.buffer \o data)
  IN handleLines([w EXCEPT !.buffer = lines[Len(lines)]],
                 SubSeq(lines, 1, Len(lines) - 1))

\* A whole frame arrives from the server: as one line on the child's stdout
\* (lines 351-353), or as one socket message (lines 394-403).
onFrame(w, text) ==
  IF config.type = "stdio" THEN handleData(w, text \o << "\n" >>) ELSE onText(w, text)

\* Faulty variant of stop: the request counter starts over.
stopResetsCounter(w) ==
  LET w1 == IF w.process # NoConn
              THEN [w EXCEPT !.conn[w.process] = "killed", !.process = NoConn]
              ELSE w
      w2 == IF w1.ws # NoConn
              THEN [w1 EXCEPT !.conn[w1.ws] =
                        IF @ \in {"connecting", "open"} THEN "closing" ELSE @,
                      !.ws = NoConn]
              ELSE w1
  IN [w2 EXCEPT !.httpUrl = FALSE, !.tools = "[]", !.serverInfo = "null",
                !.requestId = 0]

\* Faulty variant of stop: the tool list is not cleared.
stopKeepsTools(w) ==
  LET w1 == IF w.process # NoConn
              THEN [w EXCEPT !.conn[w.process] = "killed", !.process = NoConn]
              ELSE w
      w2 == IF w1.ws # NoConn
              THEN [w1 EXCEPT !.conn[w1.ws] =
                        IF @ \in {"connecting", "open"} THEN "closing" ELSE @,
                      !.ws = NoConn]
              ELSE w1
  IN [w2 EXCEPT !.httpUrl = FALSE, !.serverInfo = "null"]

\* stop (lines 431-443)
stop(w) ==
  LET w1 == IF w.process # NoConn
              THEN [w EXCEPT !.conn[w.process] = "killed", !.process = NoConn]
              ELSE w
      w2 == IF w1.ws # NoConn
              THEN [w1 EXCEPT !.conn[w1.ws] =
                        IF @ \in {"connecting", "open"} THEN "closing" ELSE @,
                      !.ws = NoConn]
              ELSE w1
  IN [w2 EXCEPT !.httpUrl = FALSE, !.tools = "[]", !.serverInfo = "null"]

\* Faulty variant of initialize: the notification is written without waiting
\* for the initialize response.
initializeNotifiesEarly(w, s) ==
  LET w1 == sendRequest([w EXCEPT !.hs[s] = "initialize"], Cont("init", s),
                        "initialize")
  IN [w1 EXCEPT !.sentSeq[s] = Append(@, "notifications/initialized")]

\* initialize up to its await (line 457)
initialize(w, s) ==
  sendRequest([w EXCEPT !.hs[s] = "initialize"], Cont("init", s), "initialize")

\* Faulty variant of ConfigError: the configuration is not checked.
ConfigErrorUnchecked == FALSE

\* The conditions under which start() throws before opening anything:
\* !config.command (line 332), !config.url (lines 376, 416), and the final else
\* for a type that is none of the three (line 427).
ConfigError ==
  CASE config.type = "stdio" -> ~config.command
    [] config.type = "websocket" -> ~config.url
    [] config.type = "http" -> ~config.url
    [] OTHER -> TRUE

\* Strings are sequences of atoms: the characters "$", "{", "}", "/", and words
\* that hold none of them.

\* The index of the first "}" of v at or after i, or 0.
RECURSIVE closing(_, _)
closing(v, i) ==
  IF i > Len(v) THEN 0 ELSE IF v[i] = "}" THEN i ELSE closing(v, i + 1)

\* process.env[name] || '' (line 243), for the variables of ctx.
envValue(name) ==
  CASE name = << "HOME" >> -> ctx.HOME
    [] name = << "USERPROFILE" >> -> ctx.USERPROFILE
    [] name = << "FOO" >> -> ctx.FOO
    [] OTHER -> << >>

\* folder.split(/[\\/]/).pop() || '' (line 251)
basename(folder) ==
  LET seps == {i \in 1..Len(folder) : folder[i] = "/"}
  IN IF seps = {}
       THEN folder
       ELSE SubSeq(folder, (CHOOSE i \in seps : \A j \in seps : j <= i) + 1, Len(folder))

\* Faulty variant of replacer: an unknown placeholder is replaced by nothing.
replacerDropsUnknown(match, placeholder) ==
  IF placeholder[1] = "env:"
    THEN envValue(SubSeq(placeholder, 2, Len(placeholder)))
    ELSE CASE placeholder = << "workspaceFolder" >> -> ctx.folder
           [] placeholder = << "workspaceFolderBasename" >> -> basename(ctx.folder)
           [] placeholder = << "userHome" >> ->
                IF ctx.HOME # << >> THEN ctx.HOME ELSE ctx.USERPROFILE
           [] placeholder = << "cwd" >> -> ctx.cwd
           [] placeholder = << "pathSeparator" >> ->
                IF ctx.win32 THEN << "\\" >> ELSE << "/" >>
           [] OTHER -> << >>

\* The replace callback of resolvePlaceholders (lines 239-263): what a match
\* with the captured placeholder is replaced by.
replacer(match, placeholder) ==
  IF placeholder[1] = "env:"
    THEN envValue(SubSeq(placeholder, 2, Len(placeholder)))
    ELSE CASE placeholder = << "workspaceFolder" >> -> ctx.folder
           [] placeholder = << "workspaceFolderBasename" >> -> basename(ctx.folder)
           [] placeholder = << "userHome" >> ->
                IF ctx.HOME # << >> THEN ctx.HOME ELSE ctx.USERPROFILE
           [] placeholder = << "cwd" >> -> ctx.cwd
           [] placeholder = << "pathSeparator" >> ->
                IF ctx.win32 THEN << "\\" >> ELSE << "/" >>
           [] OTHER -> match

\* value.replace(/\$\{([^}]+)\}/g, ...) from position i on: a match begins at
\* "${" when a "}" follows with at least one character between; replacements
\* are not scanned again.
RECURSIVE replaceFrom(_, _)
replaceFrom(v, i) ==
  IF i > Len(v)
    THEN << >>
    ELSE LET j == IF v[i] = "$" /\ i < Len(v) /\ v[i + 1] = "{"
                    THEN closing(v, i + 2)
                    ELSE 0
         IN IF j > i + 2
              THEN replacer(SubSeq(v, i, j), SubSeq(v, i + 2, j - 1))
                     \o replaceFrom(v, j + 1)
              ELSE << v[i] >> \o replaceFrom(v, i + 1)

\* resolvePlaceholders (lines 238-264)
resolvePlaceholders(v) == replaceFrom(v, 1)

\* resolveEnvPlaceholders (lines 269-279): every value of env resolved.
resolveEnvPlaceholders(env) ==
  [i \in DOMAIN env |-> resolvePlaceholders(env[i])]

\* Faulty variant of spawnArgs: the arguments are passed as configured.
spawnArgsRawArgs ==
  [made |-> TRUE, command |-> resolvePlaceholders(raw.command),
   args |-> raw.args, env |-> resolveEnvPlaceholders(raw.env), url |-> << >>]

\* What spawn is given (lines 337-349): command, args and the configured part
\* of env.
spawnArgs ==
  [made |-> TRUE, command |-> resolvePlaceholders(raw.command),
   args |-> [i \in DOMAIN raw.args |-> resolvePlaceholders(raw.args[i])],
   env |-> resolveEnvPlaceholders(raw.env), url |-> << >>]

\* What new WsClient (line 382) and this.httpUrl (line 420) are given.
urlArg ==
  [made |-> TRUE, command |-> << >>, args |-> << >>, env |-> << >>,
   url |-> resolvePlaceholders(raw.url)]

\* start (lines 322-429), up to its first await. Each branch begins with its
\* configuration check.
start(w, s) ==
  IF w.process # NoConn
    THEN [w EXCEPT !.startState[s] = "resolved"]
    ELSE IF ConfigError
      THEN [w EXCEPT !.startState[s] = "rejected", !.startErr[s] = "config"]
      ELSE
        CASE config.type = "stdio" ->
               initialize([w EXCEPT !.process = s, !.conn[s] = "running",
                                    !.startState[s] = "pending",
                                    !.opened = spawnArgs], s)
          [] config.type = "websocket" ->
               [w EXCEPT !.ws = s, !.conn[s] = "connecting", !.opened = urlArg,
                         !.hs[s] = "awaitOpen", !.startState[s] = "resolved"]
          [] OTHER ->
               initialize([w EXCEPT !.httpUrl = TRUE, !.opened = urlArg,
                                    !.startState[s] = "pending"], s)

\* The tools of a tool list: what the host and a validating client would look a
\* name up in.
ToolsOf(tl) ==
  CASE tl = "[echo]" -> {"echo"}
    [] tl = "[echo,sum]" -> {"echo", "sum"}
    [] OTHER -> {}

\* Faulty variant of callTool: a name that is not in the discovered tool list is
\* refused by the client.
callToolValidates(w, c, name) ==
  IF name \in ToolsOf(w.tools)
    THEN sendRequest([w EXCEPT !.calls[c].st = "pending", !.toolName[c] = name],
                     Cont("call", c), "tools/call")
    ELSE [w EXCEPT !.calls[c] = [st |-> "rejected", id |-> 0, rid |-> 0,
                                 val |-> "unknown tool"],
                   !.toolName[c] = name]

\* callTool (lines 470-476): params.name is the name given, whatever it is.
callTool(w, c, name) ==
  sendRequest([w EXCEPT !.calls[c].st = "pending", !.toolName[c] = name],
              Cont("call", c), "tools/call")

\* What the host returns without calling the session.
Refused(w, c, name, why) ==
  [w EXCEPT !.calls[c] = [st |-> "refused", id |-> 0, rid |-> 0, val |-> why],
            !.via[c] = "mcp-call", !.toolName[c] = name]

\* Faulty variant of mcpCall: the session's isConnected is not consulted.
mcpCallUnchecked(w, c, name) ==
  IF w.registry # "held"
    THEN Refused(w, c, name, "not found")
    ELSE callTool([w EXCEPT !.via[c] = "mcp-call"], c, name)

\* Faulty variant of mcpCall: the session is used whenever it is in the
\* registry and its transport is open.
mcpCallAnyTransport(w, c, name) ==
  IF w.registry # "held"
    THEN Refused(w, c, name, "not found")
    ELSE IF ~(isConnected(w) \/ w.httpUrl \/ (w.ws # NoConn /\ w.conn[w.ws] = "open"))
           THEN Refused(w, c, name, "not connected")
           ELSE callTool([w EXCEPT !.via[c] = "mcp-call"], c, name)

\* invoke of the mcp-call tool up to its await (unnamed/part_002 lines 27-45):
\* the server is looked up in mcpClients, then its isConnected is read, then
\* callTool is called.
mcpCall(w, c, name) ==
  IF w.registry # "held"
    THEN Refused(w, c, name, "not found")
    ELSE IF ~isConnected(w)
           THEN Refused(w, c, name, "not connected")
           ELSE callTool([w EXCEPT !.via[c] = "mcp-call"], c, name)

\* McpToolProvider.invoke up to its await (toolProvider.ts lines 15-23).
toolInvoke(w, c, name) ==
  callTool([w EXCEPT !.via[c] = "tool"], c, name)

----------------------------------------------------------------------------
\* The actions: the host's calls, the server's messages, the transport's events.

HostCallsMade ==
  Cardinality({s \in Starts : startState[s] # "idle"})
    + Cardinality({c \in Calls : calls[c].st # "idle"})

\* The host calls start(); calls are numbered in the order they are made.
Start(s) ==
  /\ HostCallsMade < MaxHostCalls
  /\ startState[s] = "idle"
  /\ \A t \in Starts : t < s => startState[t] # "idle"
  /\ Commit(start(World, s))

\* The host calls stop().
Stop ==
  \E w \in {stop(World)} : Commit(w)

\* The host calls callTool().
CallTool(c) ==
  /\ HostCallsMade < MaxHostCalls
  /\ calls[c].st = "idle"
  /\ \A d \in Calls : d < c => calls[d].st # "idle"
  /\ Commit(callTool([World EXCEPT !.via[c] = "callTool"], c, "echo"))

\* A child process or socket can still deliver data: its 'data' / 'message'
\* listener stays attached after stop() dropped the reference.
Delivers(s) == conn[s] \in {"running", "killed", "open", "closing"}

\* The server answers a request it received; answers come in any order.
ServerRespond(r, kind, tl) ==
  /\ r \in wire
  /\ Delivers(r.conn)
  /\ (r.method = "tools/list" /\ kind = "good") \/ tl = "[]"
  /\ Commit(onFrame([World EXCEPT !.wire = @ \ {r}], Encode(Message(r.id, kind, tl))))

\* The server sends a response to no request that is waiting: a duplicate, a
\* late one, or one with an id of its own making.
StrayResponse(id, kind) ==
  /\ \E s \in Starts : Delivers(s)
  /\ id \notin DOMAIN pendingRequests
  /\ Commit(onFrame(World, Encode(Message(id, kind, "[]"))))

\* The server sends text that is not JSON, as a line or as a socket message.
BadFrame(s, text) ==
  /\ Delivers(s)
  /\ s \in {process, ws} \/ conn[s] \in {"killed", "closing"}
  /\ Commit(onFrame(World, text))

\* The 'exit' event of a child process (lines 364-368): of one that ended on
\* its own ("exited") or of one that stop() killed ("gone").
ProcessExit(s) ==
  /\ conn[s] \in {"running", "killed"}
  /\ Commit([World EXCEPT !.conn[s] = IF @ = "running" THEN "exited" ELSE "gone",
                          !.process = NoConn])

\* The 'open' event of a socket (lines 384-392): the handshake begins.
WsOpen(s) ==
  /\ conn[s] = "connecting"
  /\ Commit(initialize([World EXCEPT !.conn[s] = "open"], s))

\* The 'close' event of a socket (lines 410-414): of one the peer or the
\* network closed ("closed") or of one that stop() closed ("gone").
WsClose(s) ==
  /\ conn[s] \in {"connecting", "open", "closing", "errored"}
  /\ Commit([World EXCEPT !.conn[s] = IF @ = "closing" THEN "gone" ELSE "closed",
                          !.ws = NoConn])

\* The .then of lines 495-500 on the outcome of postJson (lines 582-618), and
\* the await of line 570: POST p completes with a response body (a result or an
\* error object) or with a network / parse failure.
postDone(w, p, kind, tl) ==
  LET w1 == [w EXCEPT !.posts = @ \ {p}]
  IN IF p.k.kind = "notify"
       THEN discoverTools(w1, p.k.who)
       ELSE IF kind = "neterr"
              THEN Reject(w1, p.k, "network error", 0)
              ELSE IF kind = "error"
                     THEN Reject(w1, p.k, "server error", p.id)
                     ELSE Resolve(w1, p.k, Message(p.id, kind, tl))

\* A POST completes.
HttpComplete(p, kind, tl) ==
  /\ p \in posts
  /\ (p.method = "tools/list" /\ kind = "good") \/ tl = "[]"
  /\ p.k.kind = "notify" => kind \in {"good", "neterr"}
  /\ Commit(postDone(World, p, kind, tl))

Next ==
  \/ \E s \in Starts : Start(s)
  \/ Stop
  \/ \E c \in Calls : CallTool(c)
  \/ \E r \in wire, kind \in Kinds, tl \in ListResults : ServerRespond(r, kind, tl)
  \/ \E id \in 1..(requestId + 1), kind \in Kinds : StrayResponse(id, kind)
  \/ \E s \in Starts, text \in BadFrames : BadFrame(s, text)
  \/ \E s \in Starts : ProcessExit(s)
  \/ \E s \in Starts : WsOpen(s)
  \/ \E s \in Starts : WsClose(s)
  \/ \E p \in posts, kind \in Kinds \cup {"neterr"}, tl \in ListResults :
        HttpComplete(p, kind, tl)

Spec == Init /\ [][Next]_vars

----------------------------------------------------------------------------
\* The child's stdout as a stream of characters: the server writes lines into
\* the pipe and the 'data' events hand them to handleData in chunks cut
\* anywhere.

\* The session with a server that sends messages of its own accord and a
\* transport that reports errors.

EventsInit ==
  /\ Init
  /\ config.type \in {"stdio", "websocket"}
  /\ ~ConfigError

\* The frames the server has sent of its own accord so far.
ServerMessages ==
  Cardinality({i \in DOMAIN dispatched : dispatched[i][2] = "method"})

\* The server sends a notification: a method, no id.
ServerNotify(s) ==
  /\ Delivers(s)
  /\ ServerMessages < MaxServerMessages
  /\ LET text == Encode(Message(NoId, "notification", "[]"))
     IN Commit([onFrame(World, text) EXCEPT !.dispatched = Append(@, text)])

\* The server sends a request of its own (the client declares the roots
\* capability, lines 446-455): a method and an id of the server's numbering.
ServerRequest(s, id) ==
  /\ Delivers(s)
  /\ ServerMessages < MaxServerMessages
  /\ LET text == Encode(Message(id, "request", "[]"))
     IN Commit([onFrame(World, text) EXCEPT !.dispatched = Append(@, text)])

\* The 'error' event of the child process (lines 359-362) or of the socket
\* (lines 405-408): the handler logs and emits 'error'.
TransportError(s) ==
  /\ conn[s] \in {"running", "connecting", "open"}
  /\ Commit([World EXCEPT !.conn[s] = "errored"])

EventsNext ==
  \/ Start(1)
  \/ Stop
  \/ \E c \in Calls : CallTool(c)
  \/ \E r \in wire, kind \in Kinds, tl \in ListResults : ServerRespond(r, kind, tl)
  \/ \E s \in Starts : ProcessExit(s)
  \/ \E s \in Starts : WsOpen(s)
  \/ \E s \in Starts : WsClose(s)
  \/ \E s \in Starts : ServerNotify(s)
  \/ \E s \in Starts, id \in 1..(requestId + 1) : ServerRequest(s, id)
  \/ \E s \in Starts : TransportError(s)

EventsSpec == EventsInit /\ [][EventsNext]_vars

\* The session inside the extension: loadMcpConfig creates it, starts it once
\* and registers it; the mcp-call tool and the tool providers call it; refresh
\* and deactivate stop it.

HostInit ==
  /\ InitSession
  /\ PlainStrings
  /\ OneSession
  /\ hosted = TRUE

\* The mcp-call tool is invoked for this server name.
McpCall(c, name) ==
  /\ HostCallsMade < MaxHostCalls
  /\ calls[c].st = "idle"
  /\ \A d \in Calls : d < c => calls[d].st # "idle"
  /\ Commit(mcpCall(World, c, name))

\* A tool provider made for one of the session's tools is invoked.
ToolInvoke(c, name) ==
  /\ HostCallsMade < MaxHostCalls
  /\ calls[c].st = "idle"
  /\ \A d \in Calls : d < c => calls[d].st # "idle"
  /\ name \in ToolsOf("[echo,sum]")
  /\ Commit(toolInvoke(World, c, name))

\* refreshMcpServers / deactivate (unnamed/part_002 lines 197-201, 280-285):
\* every client in mcpClients is stopped, then mcpClients is cleared.
hostStop(w) ==
  IF w.registry = "held" THEN [stop(w) EXCEPT !.registry = "removed"] ELSE w

HostStop ==
  \E w \in {hostStop(World)} : Commit(w)

HostNext ==
  \/ Start(1)
  \/ HostStop
  \/ \E c \in Calls, name \in ToolNames : McpCall(c, name)
  \/ \E c \in Calls, name \in ToolNames : ToolInvoke(c, name)
  \/ \E r \in wire, kind \in Kinds, tl \in ListResults : ServerRespond(r, kind, tl)
  \/ \E s \in Starts : ProcessExit(s)
  \/ \E s \in Starts : WsOpen(s)
  \/ \E s \in Starts : WsClose(s)
  \/ \E p \in posts, kind \in Kinds \cup {"neterr"}, tl \in ListResults :
        HttpComplete(p, kind, tl)

HostSpec == HostInit /\ [][HostNext]_vars

\* The session with configured strings that hold placeholders.

\* A string of the configuration: with a ${userHome} token, with an ${env:FOO}
\* token.
RawStrings ==
  { << "$", "{", "userHome", "}", "/", "x" >>,
    << "-", "$", "{", "env:", "FOO", "}" >> }

\* process.env and the rest of what resolvePlaceholders reads.
Contexts ==
  [HOME : {<< >>, << "/", "home" >>},
   USERPROFILE : {<< >>, << "C:", "u" >>},
   FOO : {<< >>, << "foo" >>, << "$", "{", "userHome", "}" >>},
   folder : {<< "/", "ws", "/", "proj" >>},
   cwd : {<< "/", "cwd" >>},
   win32 : {FALSE}]

PlaceholderInit ==
  /\ InitSession
  /\ OneSession
  /\ ~ConfigError
  /\ hosted = FALSE
  /\ raw \in [command : RawStrings, args : RawStrings \X RawStrings,
               env : {<< e >> : e \in RawStrings}, url : RawStrings]
  /\ ctx \in {c \in Contexts : c.USERPROFILE = << >> /\ c.FOO # << "foo" >>}
  /\ value = << >>
  /\ result = NotResolved

PlaceholderNext ==
  \/ Start(1)
  \/ Stop
  \/ \E r \in wire, tl \in ListResults : ServerRespond(r, "good", tl)
  \/ WsOpen(1)
  \/ \E p \in posts, tl \in ListResults : HttpComplete(p, "good", tl)

PlaceholderSpec == PlaceholderInit /\ [][PlaceholderNext]_vars

\* resolvePlaceholders on its own.

\* A piece of an input string: text that is no token, or one token.
Pieces ==
  { [kind |-> "text", text |-> << "a" >>],
    [kind |-> "text", text |-> << "$" >>],
    [kind |-> "text", text |-> << "{" >>],
    [kind |-> "text", text |-> << "}" >>],
    [kind |-> "text", text |-> << "$", "{", "}" >>],
    [kind |-> "userHome", text |-> << "$", "{", "userHome", "}" >>],
    [kind |-> "env", text |-> << "$", "{", "env:", "FOO", "}" >>],
    [kind |-> "env", text |-> << "$", "{", "env:", "BAR", "}" >>],
    [kind |-> "unknown", text |-> << "$", "{", "zzz", "}" >>],
    [kind |-> "unknown", text |-> << "$", "{", "$", "{", "userHome", "}" >>] }

\* The string made of the pieces.
RECURSIVE Flatten(_)
Flatten(ps) ==
  IF ps = << >> THEN << >> ELSE Head(ps).text \o Flatten(Tail(ps))

\* Input strings: up to MaxPieces pieces, where a text "$" is not followed by
\* a text "{" (the two would begin a token of their own).
Inputs ==
  { ps \in UNION {[1..n -> Pieces] : n \in 0..MaxPieces} :
      \A i \in 1..(Len(ps) - 1) :
        ~(ps[i].text = << "$" >> /\ ps[i + 1].text = << "{" >>) }

ResolveInit ==
  /\ InitSession
  /\ OneSession
  /\ config = [type |-> "stdio", command |-> TRUE, url |-> FALSE]
  /\ hosted = FALSE
  /\ raw = [command |-> << "a" >>, args |-> << << "a" >> >>,
            env |-> << << "a" >> >>, url |-> << "a" >>]
  /\ ctx \in Contexts
  /\ value \in Inputs
  /\ result = NotResolved

\* resolvePlaceholders(value) is called.
ResolveValue ==
  /\ ~result.done
  /\ result' = [done |-> TRUE, text |-> resolvePlaceholders(Flatten(value))]
  /\ UNCHANGED << config, hasGlobalWS, process, ws, httpUrl, requestId,
                  pendingRequests, serverInfo, tools, conn, wire, posts,
                  startState, startErr, hs, sentSeq, initOk, calls, buffer, pipe,
                  received, dispatched, hosted, registry, via, toolName, raw, ctx,
                  opened, value, workspace, clients, mcpClients, runs >>

ResolveNext == ResolveValue

ResolveSpec == ResolveInit /\ [][ResolveNext]_vars

\* The extension's registry over several clients: refreshMcpServers runs,
\* the clients they create, the 'exit' events of those clients. A client is
\* [name, by, start, proc, listener]: the server name, the run that created it,
\* the promise of its start(), its process or socket ("running", "killed" by
\* stop(), "exited" once its exit event was delivered), and whether the 'exit'
\* listener of loadMcpConfig is attached.

RegistryInit ==
  /\ InitSession
  /\ PlainStrings
  /\ config = [type |-> "stdio", command |-> TRUE, url |-> FALSE]
  /\ hosted = TRUE
  /\ workspace \in [Folders -> Names \cup {"none"}]
  /\ EmptyRegistry

SessionUnchanged ==
  UNCHANGED << config, hasGlobalWS, process, ws, httpUrl, requestId,
               pendingRequests, serverInfo, tools, conn, wire, posts,
               startState, startErr, hs, sentSeq, initOk, calls, buffer, pipe,
               received, dispatched, hosted, registry, via, toolName, raw, ctx,
               opened, value, result, workspace >>

\* The host as one record, for the steps of a run.
Host == [clients |-> clients, mcpClients |-> mcpClients, runs |-> runs]

CommitHost(h) ==
  /\ clients' = h.clients
  /\ mcpClients' = h.mcpClients
  /\ runs' = h.runs
  /\ SessionUnchanged

\* The folders after f whose config file exists (line 218).
FoldersAfter(f) == {g \in Folders : g > f /\ workspace[g] # "none"}

\* The loop of refreshMcpServers over the folders (lines 213-222) and of
\* loadMcpConfig over the servers (lines 250-270), from the folder after f up
\* to the next `await client.start()`: the client is created and start() is
\* called, which spawns the process; after the last folder the run is over.
loadNext(h, r, f) ==
  IF FoldersAfter(f) = {}
    THEN [h EXCEPT !.runs[r].pc = "done"]
    ELSE LET g == CHOOSE x \in FoldersAfter(f) : \A y \in FoldersAfter(f) : x <= y
         IN [h EXCEPT !.clients = Append(@, [name |-> workspace[g], by |-> r,
                                             start |-> "pending", proc |-> "running",
                                             listener |-> FALSE]),
                      !.runs[r].pc = "awaiting",
                      !.runs[r].folder = g]

\* client.stop() (mcpClient.ts lines 431-435): the process is killed.
stopClient(cs, c) ==
  [cs EXCEPT ![c].proc = IF @ = "running" THEN "killed" ELSE @]

\* Lines 197-202: every client in mcpClients is stopped, then the map is
\* cleared. stop() has no await of its own, so the loop runs without any event
\* being handled in between.
stopAll(h) ==
  [h EXCEPT !.clients = [c \in DOMAIN @ |->
                           IF \E n \in Names : h.mcpClients[n] = c
                             THEN stopClient(@, c)[c]
                             ELSE @[c]],
            !.mcpClients = [n \in Names |-> NoClient]]

\* refreshMcpServers (lines 194-236) begins, up to its first await on a
\* start(). A run that begins while another one is under way, and that other
\* one, are marked as overlapped.
refreshMcpServers(h, r) ==
  LET busy == {q \in Runs : h.runs[q].pc = "awaiting"}
      held == {h.mcpClients[n] : n \in Names} \ {NoClient}
      h1 == [h EXCEPT !.runs = [q \in Runs |->
                                 IF q = r
                                   THEN [@[q] EXCEPT !.overlapped = busy # {},
                                                     !.before = held]
                                   ELSE IF q \in busy
                                          THEN [@[q] EXCEPT !.overlapped = TRUE]
                                          ELSE @[q]]]
  IN loadNext(stopAll(h1), r, 0)

RefreshBegin(r) ==
  /\ runs[r].pc = "idle"
  /\ \A q \in Runs : q < r => runs[q].pc # "idle"
  /\ CommitHost(refreshMcpServers(Host, r))

\* The continuation of `await client.start()` when it resolves (lines
\* 257-263): mcpClients.set(name, client), the 'exit' listener is attached,
\* and the loops go on.
started(h, c) ==
  LET n == h.clients[c].name
      h1 == [h EXCEPT !.clients[c].start = "resolved",
                      !.clients[c].listener = TRUE,
                      !.mcpClients[n] = c]
  IN loadNext(h1, h.clients[c].by, h.runs[h.clients[c].by].folder)

\* The handshake of client c succeeds: its start() resolves.
StartResolves(c) ==
  /\ c \in DOMAIN clients
  /\ clients[c].start = "pending"
  /\ clients[c].proc = "running"
  /\ CommitHost(started(Host, c))

\* The catch of lines 265-269: start() rejected, the error is shown and the
\* loops go on. The process start() spawned is left as it is.
startFailed(h, c) ==
  loadNext([h EXCEPT !.clients[c].start = "rejected"],
           h.clients[c].by, h.runs[h.clients[c].by].folder)

\* The handshake of client c is answered with an error: its start() rejects.
StartRejects(c) ==
  /\ c \in DOMAIN clients
  /\ clients[c].start = "pending"
  /\ clients[c].proc = "running"
  /\ CommitHost(startFailed(Host, c))

\* The 'exit' listener of lines 260-263, with the process 'exit' handler that
\* emits the event: mcpClients.delete(name).
onExit(h, c) ==
  LET h1 == [h EXCEPT !.clients[c].proc = "exited"]
  IN IF h.clients[c].listener
       THEN [h1 EXCEPT !.mcpClients[h.clients[c].name] = NoClient]
       ELSE h1

\* The process of client c exits, by itself or because stop() killed it, and
\* its 'exit' event is delivered.
ClientExit(c) ==
  /\ c \in DOMAIN clients
  /\ clients[c].proc \in {"running", "killed"}
  /\ CommitHost(onExit(Host, c))

RegistryNext ==
  \/ \E r \in Runs : RefreshBegin(r)
  \/ \E c \in ClientIds : StartResolves(c)
  \/ \E c \in ClientIds : StartRejects(c)
  \/ \E c \in ClientIds : ClientExit(c)

RegistrySpec == RegistryInit /\ [][RegistryNext]_vars

\* The tool result an invocation returns: whether the invocation threw, and the
\* text parts of the LanguageModelToolResult.
Returned(parts) == [threw |-> FALSE, parts |-> parts]
Thrown == [threw |-> TRUE, parts |-> << >>]

\* result.content.filter(c => c.type === 'text').map(...) (part_002 lines
\* 47-49): a TypeError where result has no content.
textParts(res) ==
  IF ~res.defined
    THEN Thrown
    ELSE Returned(SelectSeq(res.items, LAMBDA k : k = "text"))

\* convertResult (toolProvider.ts lines 43-67): a part per text, image and
\* resource with text; a TypeError where result has no content.
convertResult(res) ==
  IF ~res.defined
    THEN Thrown
    ELSE LET parts == SelectSeq(res.items, LAMBDA k : k # "blob")
         IN Returned(IF parts = << >> THEN << "Tool completed successfully" >>
                                      ELSE parts)

\* Faulty variant of mcpCallResult: the result is converted outside the try.
mcpCallResultNoCatch(call, res) ==
  CASE call.st = "refused" -> Returned(<< call.val >>)
    [] call.st = "rejected" -> Returned(<< "Error calling tool" >>)
    [] OTHER ->
         LET r == textParts(res)
         IN IF r.threw
              THEN r
              ELSE IF r.parts = << >>
                     THEN Returned(<< "Tool completed successfully" >>)
                     ELSE r

\* What invoke of mcp-call returns (part_002 lines 31-61) for a call that was
\* refused, rejected, or resolved with result res.
mcpCallResult(call, res) ==
  CASE call.st = "refused" -> Returned(<< call.val >>)
    [] call.st = "rejected" -> Returned(<< "Error calling tool" >>)
    [] OTHER ->
         LET r == textParts(res)
         IN IF r.threw
              THEN Returned(<< "Error calling tool" >>)
              ELSE IF r.parts = << >>
                     THEN Returned(<< "Tool completed successfully" >>)
                     ELSE r

\* What McpToolProvider.invoke returns (toolProvider.ts lines 22-31).
toolInvokeResult(call, res) ==
  IF call.st = "rejected"
    THEN Returned(<< "Error" >>)
    ELSE LET r == convertResult(res)
         IN IF r.threw THEN Returned(<< "Error" >>) ELSE r

----------------------------------------------------------------------------
FramingInit ==
  /\ Init
  /\ config = [type |-> "stdio", command |-> TRUE, url |-> FALSE]

\* The server writes the response to a request it received.
ServerWrite(r, kind, tl) ==
  /\ r \in wire
  /\ conn[r.conn] \in {"running", "killed"}
  /\ (r.method = "tools/list" /\ kind = "good") \/ tl = "[]"
  /\ Commit([World EXCEPT !.wire = @ \ {r},
                          !.pipe[r.conn] = @ \o Encode(Message(r.id, kind, tl))
                                             \o << "\n" >>])

\* The lines of text that is not JSON written so far.
BadWritten ==
  Cardinality({i \in DOMAIN received : received[i] \in {"x", " "}})
    + Cardinality({p \in {<< s, i >> : s \in Starts, i \in 1..MaxPipe} :
                     p[2] <= Len(pipe[p[1]]) /\ pipe[p[1]][p[2]] \in {"x", " "}})

\* The server writes a line that is not JSON, or a blank line.
ServerWriteBad(s, text) ==
  /\ conn[s] \in {"running", "killed"}
  /\ BadWritten < MaxBad
  /\ Len(pipe[s]) + Len(text) < MaxPipe
  /\ Commit([World EXCEPT !.pipe[s] = @ \o text \o << "\n" >>])

\* A 'data' event of the child's stdout (lines 351-353): the next n characters.
Data(s, n) ==
  /\ Delivers(s)
  /\ n \in 1..Len(pipe[s])
  /\ LET chunk == SubSeq(pipe[s], 1, n)
         lines == split(buffer \o chunk)
         w == handleData([World EXCEPT !.pipe[s] = SubSeq(@, n + 1, Len(@))], chunk)
     IN Commit([w EXCEPT
                  !.received = @ \o chunk,
                  !.dispatched = @ \o SelectSeq(SubSeq(lines, 1, Len(lines) - 1),
                                                LAMBDA l : trim(l) # << >>)])

FramingNext ==
  \/ Start(1)
  \/ Stop
  \/ \E c \in Calls : CallTool(c)
  \/ \E r \in wire, kind \in Kinds, tl \in ListResults : ServerWrite(r, kind, tl)
  \/ \E s \in Starts, text \in {<< "x" >>, << " " >>} : ServerWriteBad(s, text)
  \/ \E s \in Starts, n \in 1..MaxPipe : Data(s, n)

FramingSpec == FramingInit /\ [][FramingNext]_vars

----------------------------------------------------------------------------
\* Vocabulary of the properties.

Stream == config.type \in {"stdio", "websocket"}

Settled(c) == calls[c].st \in {"resolved", "rejected"}

\* The connection ended on its own: the process exited, the socket closed.
Ended(s) == conn[s] \in {"exited", "closed"}

\* C1: on a stream transport, a caller settled by a response is settled by the
\* response whose id is the id assigned to that caller's request, whatever the
\* order in which the responses arrive.
C1_MatchedById ==
  Stream =>
    \A c \in Calls : (Settled(c) /\ calls[c].rid # 0) => calls[c].rid = calls[c].id

\* Two calls in flight together, the later one answered first.
C1_Witness ==
  /\ Stream
  /\ calls[1].st = "pending" /\ calls[1].id \in DOMAIN pendingRequests
  /\ calls[2].st = "resolved" /\ calls[2].rid = calls[2].id
  /\ calls[1].id < calls[2].id

\* C2: a request is settled at most once: a settled caller's outcome never
\* changes, the id of a settled request is no longer in the pending table, and a
\* response whose id matches no pending request changes nothing at all.
C2_SettledOnce ==
  /\ [](\A c \in Calls : Settled(c) => calls[c].id \notin DOMAIN pendingRequests)
  /\ [](\A id \in Ids \ DOMAIN pendingRequests, kind \in Kinds :
          handleMessage(World, Message(id, kind, "[]")) = World)
  /\ [][\A c \in Calls : Settled(c) => calls'[c] = calls[c]]_vars

\* A request was settled by its response and the server can still send a
\* duplicate of that response.
C2_Witness ==
  \E c \in Calls :
    /\ calls[c].st = "resolved" /\ calls[c].rid = calls[c].id
    /\ ENABLED StrayResponse(calls[c].id, "error")

\* The ids held by the callers, the pending table, the wire and the POSTs.
IdsInUse ==
  {calls[c].id : c \in Calls} \cup DOMAIN pendingRequests
    \cup {r.id : r \in wire} \cup {p.id : p \in posts}

\* C3: the counter never decreases, also across stop() and start(); every id
\* handed out is one more than the last, is not in the pending table when it is
\* handed out, and no two requests ever share an id.
C3_IdsIncrease ==
  /\ [](IdsInUse \subseteq 0..requestId)
  /\ [](\A c, d \in Calls : (c # d /\ calls[c].id # 0) => calls[c].id # calls[d].id)
  /\ [](\A q, r \in wire : q.id = r.id => q = r)
  /\ [][/\ requestId' >= requestId
        /\ \A k \in (requestId + 1)..requestId' : k \notin DOMAIN pendingRequests
        /\ \A c \in Calls : (calls[c].id = 0 /\ calls'[c].id # 0) => calls'[c].id > requestId
       ]_vars

\* A second child process was spawned after the first was stopped, and its
\* handshake took an id above those of the first.
C3_Witness ==
  /\ conn[1] \in {"killed", "gone"}
  /\ conn[2] = "running"
  /\ requestId >= 2
  /\ \E r \in wire : r.conn = 2 /\ r.id = requestId

\* C4: once a transport has closed on its own, no request written to it is
\* left pending: each has been rejected and taken out of the pending table.
C4_PendingRejectedOnClose ==
  \A r \in wire : Ended(r.conn) => r.id \notin DOMAIN pendingRequests

\* The session is Ready: the handshake ran to its end, the server identity is
\* set and the tool list is the one a tools/list response carried.
Ready == serverInfo = "srv" /\ tools \in ToolLists /\ \E t \in Starts : hs[t] = "done"

\* C5: on every transport kind, at the step in which start() resolves the
\* session is Ready.
C5_ResolvedMeansReady ==
  [][\A s \in Starts :
       (startState[s] # "resolved" /\ startState'[s] = "resolved") => Ready']_vars

HandshakeOrder == << "initialize", "notifications/initialized", "tools/list" >>

\* C6: each handshake transmits initialize, then notifications/initialized,
\* then tools/list, the notification (and so tools/list) only after a successful
\* initialize response; after a failed initialize neither is transmitted.
C6_HandshakeOrder ==
  \A s \in Starts :
    /\ Len(sentSeq[s]) <= 3
    /\ sentSeq[s] = SubSeq(HandshakeOrder, 1, Len(sentSeq[s]))
    /\ Len(sentSeq[s]) >= 2 => initOk[s]
    /\ initOk[s] => Len(sentSeq[s]) >= 1

\* A handshake that transmitted all three messages and completed.
C6_Witness ==
  \E s \in Starts : hs[s] = "done" /\ sentSeq[s] = HandshakeOrder

\* The handshake of start() s can no longer succeed: a step of it failed, or the
\* request it waits on went to a transport that has closed on its own.
HandshakeLost(s) ==
  \/ hs[s] = "failed"
  \/ \E r \in wire :
       /\ Ended(r.conn)
       /\ r.id \in DOMAIN pendingRequests
       /\ pendingRequests[r.id].kind \in {"init", "list"}
       /\ pendingRequests[r.id].who = s

\* C7: when the handshake of a start() is lost, that start() is rejected: it
\* is neither still suspended nor resolved.
C7_FailedStartRejects ==
  \A s \in Starts : HandshakeLost(s) => startState[s] = "rejected"

\* C8: at the step in which start() fails on a handshake step, the session is
\* Closed: the process or socket that start() opened is not left running and
\* isConnected is false.
C8_FailedStartCloses ==
  [][\A s \in Starts :
       (startState[s] = "pending" /\ startState'[s] = "rejected")
         => /\ conn'[s] \notin {"running", "connecting", "open"}
            /\ process' = NoConn
            /\ ws' = NoConn]_vars

\* The configuration lacks the field its transport kind requires, or names a
\* kind that is none of stdio, websocket, http.
BadConfig ==
  \/ config.type = "stdio" /\ ~config.command
  \/ config.type \in {"websocket", "http"} /\ ~config.url
  \/ config.type \notin {"stdio", "websocket", "http"}

\* C9: start() on such a configuration is rejected with a configuration error
\* and opens no transport, sends nothing, allocates no id and leaves the tool
\* list as it was.
C9_ConfigErrorNoEffect ==
  [][\A s \in Starts :
       (BadConfig /\ startState[s] = "idle" /\ startState'[s] # "idle")
         => /\ startState'[s] = "rejected" /\ startErr'[s] = "config"
            /\ UNCHANGED << process, ws, httpUrl, requestId, pendingRequests,
                            serverInfo, tools, conn, wire, posts, sentSeq >>]_vars

C9_Witness ==
  \E s \in Starts : BadConfig /\ startState[s] = "rejected" /\ startErr[s] = "config"

Stopped == stop(World) = World

\* The step is not a call of start().
NoNewStart == \A s \in Starts : startState[s] = "idle" => startState'[s] = "idle"

\* C11: from the moment stop() has returned, and until the next start(), the
\* tool list and the server identity stay empty, whatever response arrives for
\* a handshake that was in progress when stop() was called.
C11_StopKeepsEmpty ==
  [][(Stopped /\ NoNewStart) => (tools' = "[]" /\ serverInfo' = "null")]_vars

\* The session has no transport left: every process it spawned was killed or
\* has exited, every socket it created was closed, no HTTP endpoint is set.
Closed ==
  /\ \A s \in Starts : conn[s] \notin {"running", "connecting", "open"}
  /\ ~httpUrl

\* The session had a transport and lost it, by stop() or on its own.
WasClosed ==
  /\ Closed
  /\ \E s \in Starts : startState[s] # "idle" /\ startErr[s] # "config"

NotConnectedErrors == {"not connected", "not configured"}

\* C12: in a state where the session has been closed, callTool is rejected with
\* the transport's not-connected error, writes nothing to a process or socket,
\* issues no POST and leaves the pending table as it was.
C12_ClosedRejectsCalls ==
  WasClosed =>
    \A c \in Calls :
      LET a == callTool(World, c, "echo")
      IN /\ a.calls[c].st = "rejected"
         /\ a.calls[c].val \in NotConnectedErrors
         /\ a.wire = wire
         /\ a.posts = posts
         /\ a.pendingRequests = pendingRequests

\* callTool was called on a closed session and was rejected as not connected.
C12_Witness ==
  /\ WasClosed
  /\ config.type = "stdio"
  /\ \E c \in Calls :
       calls[c].st = "rejected" /\ calls[c].val = "not connected" /\ calls[c].id > 1
  /\ \A r \in wire : r.method # "tools/call"
  /\ \A p \in posts : p.method # "tools/call"

\* The tools/call requests transmitted so far.
CallsSent ==
  {r.id : r \in {q \in wire : q.method = "tools/call"}}
    \cup {p.id : p \in {q \in posts : q.method = "tools/call"}}

\* C13: a callTool issued while the session is not Ready fails at once and
\* transmits no tools/call request.
C13_CallOnlyWhenReady ==
  [][\A c \in Calls :
       (calls[c].st = "idle" /\ calls'[c].st # "idle" /\ ~Ready)
         => (calls'[c].st = "rejected" /\ CallsSent' \subseteq CallsSent)]_vars

\* What rejecting continuation k with the error of response `id` changes in
\* state b to give state a: the caller's promise, or the handshake's position,
\* and nothing else of the callers and handshakes.
RejectedOnly(b, a, k, id) ==
  IF k.kind = "call"
    THEN /\ a.calls = [b.calls EXCEPT ![k.who] =
                         [st |-> "rejected", id |-> @.id, rid |-> id,
                          val |-> "server error"]]
         /\ a.hs = b.hs /\ a.startState = b.startState /\ a.startErr = b.startErr
    ELSE /\ a.calls = b.calls
         /\ a.hs = [b.hs EXCEPT ![k.who] = "failed"]
         /\ a.startErr = [b.startErr EXCEPT ![k.who] = "server error"]
         /\ \A s \in Starts \ {k.who} : a.startState[s] = b.startState[s]

\* The tool list, the server identity and the connection are the same in a and b.
SameSession(b, a) ==
  /\ a.tools = b.tools /\ a.serverInfo = b.serverInfo
  /\ a.process = b.process /\ a.ws = b.ws /\ a.httpUrl = b.httpUrl
  /\ a.conn = b.conn /\ a.wire = b.wire /\ a.requestId = b.requestId

\* C14: a response with an error object rejects the pending request of its id
\* with the server's error and takes that entry, and only that entry, out of
\* the pending table (on http: out of the POSTs in flight); every other request,
\* the tool list, the server identity and the connection are unchanged.
C14_ErrorRejectsOne ==
  /\ \A id \in DOMAIN pendingRequests :
       LET a == handleMessage(World, Message(id, "error", "[]"))
       IN /\ a.pendingRequests = MapDelete(pendingRequests, id)
          /\ a.posts = posts
          /\ SameSession(World, a)
          /\ RejectedOnly(World, a, pendingRequests[id], id)
  /\ \A p \in {q \in posts : q.k.kind # "notify"} :
       LET a == postDone(World, p, "error", "[]")
       IN /\ a.posts = posts \ {p}
          /\ a.pendingRequests = pendingRequests
          /\ SameSession(World, a)
          /\ RejectedOnly(World, a, p.k, p.id)

\* One call was rejected by the server's error response while another request
\* of a session that has its tool list is still pending.
C14_Witness ==
  /\ tools \in ToolLists /\ serverInfo = "srv"
  /\ \E c, d \in Calls :
       /\ calls[c].st = "rejected" /\ calls[c].val = "server error"
       /\ calls[c].rid = calls[c].id
       /\ calls[d].st = "pending"
       /\ (Stream => calls[d].id \in DOMAIN pendingRequests)

\* C17: the tool list a reader sees is empty or a complete list; it changes
\* only to empty or to the list a successful tools/list response carries, and a
\* discovery that fails leaves it as it was.
C17_ToolListComplete ==
  /\ [](tools \in ToolLists \cup {"[]"})
  /\ [][tools' # tools =>
          \/ tools' = "[]"
          \/ \E r \in wire \ wire' : r.method = "tools/list"
          \/ \E p \in posts \ posts' : p.method = "tools/list"]_vars
  /\ [][\A s \in Starts :
          (hs[s] = "discover" /\ hs'[s] = "failed") => tools' = tools]_vars

\* The transport of the configured kind is open.
TransportOpen ==
  CASE config.type = "stdio" -> process # NoConn /\ conn[process] = "running"
    [] config.type = "websocket" -> ws # NoConn /\ conn[ws] = "open"
    [] config.type = "http" -> httpUrl
    [] OTHER -> FALSE

\* C18: a non-empty tool list or a set server identity implies that the session
\* is Ready, with its transport open.
C18_PopulatedOnlyWhenReady ==
  (tools # "[]" \/ serverInfo # "null") => (Ready /\ TransportOpen)

\* C19: once the session has been closed, no step opens a transport or
\* transmits a request or a notification.
C19_ClosedIsTerminal ==
  [][WasClosed =>
       /\ Closed'
       /\ wire' \subseteq wire
       /\ posts' \subseteq posts
       /\ sentSeq' = sentSeq]_vars

\* C20: isConnected is true when the session is Ready with its transport open,
\* on every transport kind, and false once the session has been closed.
C20_IsConnectedMeansAlive ==
  /\ (Ready /\ TransportOpen) => isConnected(World)
  /\ Closed => ~isConnected(World)

\* The lines a character stream holds, read in one piece: each run of
\* characters that a newline ends. `cur` is the line being read.
RECURSIVE LinesOf(_, _)
LinesOf(str, cur) ==
  IF str = << >>
    THEN << >>
    ELSE IF Head(str) = "\n"
           THEN << cur >> \o LinesOf(Tail(str), << >>)
           ELSE LinesOf(Tail(str), Append(cur, Head(str)))

\* What follows the last newline of a character stream.
RECURSIVE FragmentOf(_, _)
FragmentOf(str, cur) ==
  IF str = << >>
    THEN cur
    ELSE IF Head(str) = "\n"
           THEN FragmentOf(Tail(str), << >>)
           ELSE FragmentOf(Tail(str), Append(cur, Head(str)))

NonBlank(line) == \E i \in DOMAIN line : line[i] # " "

\* A line that is not blank and is not valid JSON.
Malformed(line) == NonBlank(line) /\ ~Parses(line)

\* C15: a malformed line or socket message changes nothing (no request is
\* settled, no connection closed), and a frame that follows it, in the same
\* chunk or in a later one, is dispatched as if the malformed one had not come.
C15_MalformedDropped ==
  /\ [](\A text \in BadFrames : Malformed(text) /\ onText(World, text) = World)
  /\ [](buffer = << >> =>
          \A text \in BadFrames, id \in DOMAIN pendingRequests, kind \in Kinds :
            LET frame == Encode(Message(id, kind, "[]")) \o << "\n" >>
            IN /\ handleData(World, text \o << "\n" >> \o frame) = handleData(World, frame)
               /\ handleData(World, text \o << "\n" >>) = World)
  /\ [][(/\ Len(dispatched') > Len(dispatched)
         /\ \A i \in (Len(dispatched) + 1)..Len(dispatched') : Malformed(dispatched'[i]))
          => UNCHANGED << pendingRequests, calls, startState, hs, tools, serverInfo,
                          process, ws, conn, wire, requestId >>]_vars

\* A malformed line was received and dropped, and a response received after it
\* settled the call it answers.
C15_Witness ==
  \E i, j \in DOMAIN dispatched :
    /\ i < j
    /\ Malformed(dispatched[i])
    /\ Parses(dispatched[j])
    /\ \E c \in Calls : calls[c].st = "resolved" /\ calls[c].id = Parse(dispatched[j]).id
    /\ conn[1] = "running" /\ process = 1

\* C16: however the stream is cut into chunks, the lines dispatched so far are
\* the non-blank newline-terminated lines of the characters received so far, in
\* their order, each once; the buffer is what follows the last newline; and
\* delivering what is in the pipe in two chunks, cut anywhere, leaves the same
\* state as delivering it in one.
C16_ChunkingInvariant ==
  /\ dispatched = SelectSeq(LinesOf(received, << >>), NonBlank)
  /\ buffer = FragmentOf(received, << >>)
  /\ \A s \in Starts : \A k \in 0..Len(pipe[s]) :
       handleData(handleData(World, SubSeq(pipe[s], 1, k)),
                  SubSeq(pipe[s], k + 1, Len(pipe[s])))
         = handleData(World, pipe[s])

\* A response arrived in pieces: its first characters wait in the buffer, the
\* rest is still in the pipe, after earlier lines were dispatched.
C16_Witness ==
  /\ Len(dispatched) >= 2
  /\ Len(buffer) \in {1, 2}
  /\ Len(pipe[1]) >= 2
  /\ Parses(buffer \o SubSeq(pipe[1], 1, 3 - Len(buffer)))

\* The processes and sockets of the session that are open.
OpenTransports == {s \in Starts : conn[s] \in {"running", "connecting", "open"}}

\* The handshakes that transmitted something.
Handshakes == {s \in Starts : sentSeq[s] # << >>}

\* C26: the session owns at most one open process or socket at a time, and a
\* start() made while the session has a transport opens nothing and sends
\* nothing.
C26_OneTransport ==
  /\ [](Cardinality(OpenTransports) <= 1)
  /\ [][\A s \in Starts :
          (startState[s] = "idle" /\ startState'[s] # "idle" /\ (OpenTransports # {} \/ httpUrl))
            => (conn' = conn /\ sentSeq' = sentSeq /\ wire' = wire /\ posts' = posts)]_vars

\* C27: stop() settles every pending request: in the state stop() leaves, the
\* pending table is empty and no caller is still suspended on a request written
\* to a process or socket.
C27_StopSettlesPending ==
  LET a == stop(World)
  IN /\ a.pendingRequests = << >>
     /\ Stream => \A c \in Calls : a.calls[c].st # "pending"

\* C29: on the socket transport a request or notification is written only to a
\* socket that has signalled open, the handshake starts at the open event, and
\* a callTool made before that is rejected and writes nothing.
C29_NothingBeforeOpen ==
  /\ [][config.type = "websocket" =>
          /\ \A r \in wire' \ wire : conn'[r.conn] = "open"
          /\ sentSeq' # sentSeq => (ws' # NoConn /\ conn'[ws'] = "open")
          /\ \A c \in Calls :
               (calls[c].st = "idle" /\ calls'[c].st # "idle"
                  /\ (ws = NoConn \/ conn[ws] # "open"))
                 => (calls'[c].st = "rejected" /\ wire' = wire
                       /\ pendingRequests' = pendingRequests)]_vars
  /\ [](\A s \in Starts : conn[s] = "connecting" => (hs[s] = "awaitOpen" /\ sentSeq[s] = << >>))

\* A callTool made while the socket was connecting was rejected, and the
\* handshake was sent once the socket had opened.
C29_Witness ==
  /\ config.type = "websocket"
  /\ \E s \in Starts : conn[s] = "open" /\ sentSeq[s] # << >>
  /\ \E c \in Calls : calls[c].st = "rejected" /\ calls[c].val = "not connected"
                        /\ calls[c].id = 1

\* C30: the notification takes no request id and no pending entry, and the
\* handshake never waits on it: once initialize has succeeded the handshake is
\* at tools/list or beyond.
C30_NotificationNotAwaited ==
  /\ \A p \in posts : p.method = "notifications/initialized" => p.id = 0
  /\ \A r \in wire : r.method # "notifications/initialized"
  /\ \A s \in Starts : hs[s] # "notify"

\* The invocations made through the mcp-call tool in this step.
McpCallsMade(c) == via[c] = "none" /\ via'[c] = "mcp-call"

\* C21: an mcp-call naming a server that is in the registry with a Ready
\* session and an open transport, of any kind, is forwarded: a tools/call
\* request is transmitted and the caller waits for its result.
C21_McpCallForwards ==
  [][\A c \in Calls :
       (McpCallsMade(c) /\ registry = "held" /\ Ready /\ TransportOpen)
         => (calls'[c].st = "pending" /\ calls'[c].id \in CallsSent' \ CallsSent)]_vars

\* The invocations that have returned.
Returning(c) == via[c] \in {"mcp-call", "tool"} /\ calls[c].st \in {"resolved", "rejected", "refused"}

\* C22: whatever the outcome of callTool and whatever the result holds, the
\* invocation returns (it does not throw) a tool result with at least one part.
C22_InvokeNeverThrows ==
  \A c \in Calls : Returning(c) =>
    \A res \in Results :
      LET out == IF via[c] = "mcp-call" THEN mcpCallResult(calls[c], res)
                                       ELSE toolInvokeResult(calls[c], res)
      IN ~out.threw /\ Len(out.parts) >= 1

\* One invocation through a provider was rejected as not connected and one
\* through mcp-call got the server's answer.
C22_Witness ==
  \E c, d \in Calls :
    /\ via[c] = "tool" /\ calls[c].st = "rejected" /\ calls[c].val = "not connected"
    /\ via[d] = "mcp-call" /\ Settled(d) /\ calls[d].rid = calls[d].id

\* C23: an mcp-call for a server that is not in the registry, or whose session
\* reports not connected, returns an error result at once and nothing is sent:
\* no request written, no POST issued, no id taken, no pending entry made.
C23_McpCallRefuses ==
  [][\A c \in Calls :
       (McpCallsMade(c) /\ (registry # "held" \/ ~isConnected(World)))
         => /\ calls'[c].st = "refused"
            /\ calls'[c].val \in {"not found", "not connected"}
            /\ mcpCallResult(calls'[c], CHOOSE res \in Results : TRUE).parts = << calls'[c].val >>
            /\ UNCHANGED << wire, posts, requestId, pendingRequests, sentSeq >>]_vars

\* An mcp-call was refused as not connected while the session's socket was
\* open, and one was refused as not found.
C23_Witness ==
  \E c, d \in Calls :
    /\ calls[c].st = "refused" /\ calls[c].val = "not connected"
    /\ calls[d].st = "refused" /\ calls[d].val = "not found"

\* C28: callTool on a Ready session with a name that is not in the discovered
\* tool list transmits a tools/call request for it, and the caller gets what the
\* server answers to that request.
C28_NoClientValidation ==
  /\ [][\A c \in Calls :
          (/\ via[c] = "none" /\ via'[c] # "none" /\ calls'[c].st # "refused"
           /\ Ready /\ TransportOpen
           /\ toolName'[c] \notin ToolsOf(tools))
            => (calls'[c].st = "pending" /\ calls'[c].id \in CallsSent' \ CallsSent)]_vars
  /\ [](\A c \in Calls :
          (Settled(c) /\ calls[c].id # 0 /\ calls[c].rid # 0)
            => (calls[c].rid = calls[c].id /\ calls[c].val \in {"good", "server error"}))

\* A call for a tool that the discovered list does not carry was transmitted on
\* a Ready session and answered by the server.
C28_Witness ==
  \E c \in Calls :
    /\ tools \in ToolLists /\ toolName[c] = "nope"
    /\ Settled(c) /\ calls[c].rid = calls[c].id /\ calls[c].id > 2

\* What the claim says a piece becomes: a userHome token the home directory of
\* the context, an env token the variable's value or nothing, anything else
\* itself.
Becomes(piece) ==
  CASE piece.kind = "userHome" -> IF ctx.HOME # << >> THEN ctx.HOME ELSE ctx.USERPROFILE
    [] piece.kind = "env" -> IF piece.text[4] = "FOO" THEN ctx.FOO ELSE << >>
    [] OTHER -> piece.text

RECURSIVE BecomesAll(_)
BecomesAll(ps) ==
  IF ps = << >> THEN << >> ELSE Becomes(Head(ps)) \o BecomesAll(Tail(ps))

\* C24: the string resolvePlaceholders returns is the input with every
\* ${userHome} token replaced by the home directory of the context, every
\* ${env:VAR} token by the value of VAR or by nothing when VAR is unset, and
\* every other token and all other text as it was.
C24_ResolvesTokens ==
  result.done => result.text = BecomesAll(value)

\* A string holding a ${userHome} token, an env token and an unknown token
\* was resolved in a context that has a home directory.
C24_Witness ==
  /\ result.done
  /\ ctx.HOME # << >>
  /\ \E i, j, k \in 1..Len(value) :
       value[i].kind = "userHome" /\ value[j].kind = "env" /\ value[k].kind = "unknown"

\* C25: whatever a transport was opened with is the resolved form of the
\* configured strings: the command, each argument and each environment value
\* given to spawn, the URL given to the socket, and the URL of every POST.
C25_OpenedWithResolved ==
  /\ (\E s \in Starts : conn[s] # "none") \/ httpUrl \/ posts # {} => opened.made
  /\ (opened.made /\ config.type = "stdio") =>
       /\ opened.command = resolvePlaceholders(raw.command)
       /\ Len(opened.args) = Len(raw.args)
       /\ \A i \in 1..Len(raw.args) : opened.args[i] = resolvePlaceholders(raw.args[i])
       /\ Len(opened.env) = Len(raw.env)
       /\ \A i \in 1..Len(raw.env) : opened.env[i] = resolvePlaceholders(raw.env[i])
  /\ (opened.made /\ config.type # "stdio") =>
       opened.url = resolvePlaceholders(raw.url)
  /\ \A p \in posts : p.url = resolvePlaceholders(raw.url)

\* A process was spawned from a configuration whose command, arguments and
\* environment value all hold a token, and none of them was passed as written.
C25_Witness ==
  /\ config.type = "stdio" /\ conn[1] = "running"
  /\ opened.command # raw.command
  /\ \A i \in 1..Len(raw.args) : opened.args[i] # raw.args[i]
  /\ opened.env[1] # raw.env[1]

\* C31: on http the pending table stays empty, the completion of a POST settles
\* the request that issued it and no other, and a call settled by a response
\* body is settled by the body of its own POST, whatever the order in which
\* the POSTs complete.
C31_HttpSettledByOwnPost ==
  /\ [](config.type = "http" =>
          /\ pendingRequests = << >>
          /\ \A c \in Calls :
               (Settled(c) /\ calls[c].rid # 0) => calls[c].rid = calls[c].id)
  /\ [][config.type = "http" =>
          \A p \in posts \ posts' :
            \A c \in Calls :
              (calls'[c] # calls[c] /\ calls[c].st = "pending")
                => (p.k = Cont("call", c) /\ p.id = calls[c].id)]_vars

\* Two calls were in flight on http and the POST of the later one completed
\* first.
C31_Witness ==
  /\ config.type = "http"
  /\ calls[1].st = "pending" /\ calls[1].id # 0
  /\ calls[2].st = "resolved" /\ calls[2].rid = calls[2].id
  /\ calls[2].id > calls[1].id

\* C36: the exit event of a child process that stop() killed, arriving after a
\* new start() has spawned another process, leaves the reference to the new
\* process set.
C36_LateExitKeepsNew ==
  [][\A s \in Starts :
       (conn[s] = "killed" /\ conn'[s] = "gone" /\ process # NoConn)
         => process' = process]_vars

\* C40: every id in the pending table is at most the id counter; an id enters
\* the table only as the newest id, together with its request on the
\* transport; and a sendRequest that fails as not connected leaves the table as
\* it was.
C40_PendingWasWritten ==
  /\ [](\A id \in DOMAIN pendingRequests : id <= requestId)
  /\ [][\A id \in DOMAIN pendingRequests' \ DOMAIN pendingRequests :
          /\ id = requestId' /\ id > requestId
          /\ \E r \in wire' \ wire : r.id = id]_vars
  /\ [](Stream =>
          \A c \in Calls :
            LET a == callTool(World, c, "echo")
            IN a.calls[c].st = "rejected"
                 => (a.pendingRequests = pendingRequests /\ a.wire = wire))

\* A call was rejected as not connected while another request was waiting in
\* the pending table, which still holds it.
C40_Witness ==
  /\ Stream
  /\ \E c \in Calls : calls[c].st = "rejected" /\ calls[c].val = "not connected"
  /\ pendingRequests # << >>

\* C34: when the process of a registered session exits or its socket closes,
\* the session leaves the registry; and an mcp-call made after that is answered
\* with "not found" and reaches no session.
C34_ExitDeregisters ==
  /\ [][\A s \in Starts :
          (registry = "held" /\ ~Ended(s) /\ Ended(s)') => registry' = "removed"]_vars
  /\ [][\A c \in Calls :
          (McpCallsMade(c) /\ registry = "removed")
            => (calls'[c].st = "refused" /\ calls'[c].val = "not found"
                /\ UNCHANGED << wire, posts, pendingRequests >>)]_vars

\* A registered stdio session served one mcp-call, its process exited, and the
\* next mcp-call was answered with "not found".
C34_Witness ==
  /\ config.type = "stdio" /\ conn[1] = "exited"
  /\ via[1] = "mcp-call" /\ calls[1].id # 0
  /\ via[2] = "mcp-call" /\ calls[2].st = "refused" /\ calls[2].val = "not found"

\* The step delivers a message of the given kind that the server sent of its
\* own accord.
ServerSent(kind) ==
  /\ Len(dispatched') = Len(dispatched) + 1
  /\ Parse(dispatched'[Len(dispatched')]).kind = kind

\* C32: when the process or the socket reports an error, every request pending
\* at that moment is rejected: the pending table is empty afterwards and no
\* caller is left waiting.
C32_ErrorRejectsPending ==
  [][\A s \in Starts :
       (conn[s] # "errored" /\ conn'[s] = "errored")
         => /\ pendingRequests' = << >>
            /\ \A c \in Calls : calls[c].st = "pending" => calls'[c].st = "rejected"]_vars

\* C33: a message without an id leaves the pending table, the callers, the
\* tool list, the server identity and the connection as they were.
C33_NotificationIgnored ==
  [][ServerSent("notification")
       => UNCHANGED << pendingRequests, calls, tools, serverInfo, conn, process, ws,
                       startState, startErr, hs, initOk, wire, requestId, buffer >>]_vars

\* A notification arrived while a callTool request was waiting for its
\* response, and the request is still waiting.
C33_Witness ==
  /\ \E i \in DOMAIN dispatched : Parse(dispatched[i]).kind = "notification"
  /\ \E c \in Calls : calls[c].st = "pending" /\ calls[c].id \in DOMAIN pendingRequests

\* C39: a request sent by the server, whatever its id, resolves and rejects no
\* pending request of the client.
C39_OnlyResponsesSettle ==
  [][ServerSent("request") => UNCHANGED << pendingRequests, calls, startState, hs >>]_vars

\* The clients whose start() succeeded and whose process runs.
Serving(cs) == {c \in DOMAIN cs : cs[c].start = "resolved" /\ cs[c].proc = "running"}

\* The clients in the registry.
Held(m) == {m[n] : n \in Names} \ {NoClient}

\* The run r ends in this step without having overlapped another one.
RefreshCompletes(r) ==
  runs[r].pc # "done" /\ runs'[r].pc = "done" /\ ~runs'[r].overlapped

\* C35: when a refresh that overlapped no other one completes, every client
\* that was in the registry before it has been stopped, and the registry holds
\* exactly the clients this run created whose start() succeeded and whose
\* process still runs.
C35_RefreshReplacesRegistry ==
  [][\A r \in Runs :
       RefreshCompletes(r)
         => /\ \A c \in runs'[r].before : clients'[c].proc # "running"
            /\ Held(mcpClients') = {c \in Serving(clients') : clients'[c].by = r}]_vars

\* C37: when the registry holds a new client under the name of a client that a
\* refresh stopped, the exit event of the stopped client leaves the registry as
\* it was.
C37_LateExitKeepsEntry ==
  [][\A c \in DOMAIN clients :
       (/\ clients[c].proc = "killed" /\ clients'[c].proc = "exited"
        /\ mcpClients[clients[c].name] \notin {c, NoClient}
        /\ \A r \in Runs : ~runs[r].overlapped)
         => mcpClients' = mcpClients]_vars

\* Two runs overlapped and both are over.
OverlapOver ==
  /\ \A r \in Runs : runs[r].pc = "done"
  /\ \E r \in Runs : runs[r].overlapped

\* C38: once two overlapping refreshes are both over, every client that was
\* started and not stopped is in the registry, and no two running clients
\* have the same server name.
C38_OverlapLeavesNoOrphan ==
  OverlapOver =>
    /\ Serving(clients) \subseteq Held(mcpClients)
    /\ \A c, d \in DOMAIN clients :
         (c # d /\ clients[c].proc = "running" /\ clients[d].proc = "running")
           => clients[c].name # clients[d].name

====
